---- MODULE Spec2Model ----
(***************************************************************************)
(* Garage door controller: the scheduled door monitor (lambda/monitor)     *)
(* and the Alexa command handler (lambda/alexa-skill) sharing one DynamoDB *)
(* record per device.  Every handler is modelled step by step at its       *)
(* external calls (Particle cloud, DynamoDB, SNS), so that invocations of  *)
(* the two lambdas can interleave between those calls.  The device          *)
(* firmware (firmware/src/garage-door.ino) is modelled beside them: its     *)
(* main loop, its sensor reading and its two cloud functions.               *)
(***************************************************************************)
EXTENDS Integers, Sequences, FiniteSets, TLC

VARIABLES
    now,        \* time.Now().Unix(), seconds
    store,      \* the DynamoDB item of the device, or Nil when there is none
    published,  \* the SNS messages published so far, oldest first
    ppc,        \* monitor: position inside HandleMonitor
    pStatus,    \* monitor: status returned by getDoorStatus
    pPrev,      \* monitor: previousState
    pNew,       \* monitor: newState
    pResult,    \* monitor: outcome of the last HandleMonitor invocation
    pReadErr,   \* monitor: whether getDoorState returned an error
    pNotify,    \* monitor: sendNotification "none" (not called), "sent", "failed"
    cpc,        \* command handler: position inside HandleRequest
    cStatus,    \* command handler: status returned by getParticleVariable
    cTime,      \* command handler: currentTime of updateButtonPress/updateDoorStatus
    cState,     \* command handler: the DoorState being updated
    cRv,        \* command handler: <<return_value>> of the pressButton call, << >> if none
    cResp,      \* command handler: the last (AlexaResponse, error) returned
    millis,         \* firmware: millis(), a 32-bit count of milliseconds
    fpc,            \* firmware: position inside loop()
    doorStatus,     \* firmware: the doorStatus buffer
    distance,       \* firmware: last distance reading, mm
    lastSensorRead, \* firmware: millis() of the last sensor poll
    lastPublish,    \* firmware: millis() of the last door/distance event
    relayActive,    \* firmware: the relay is energised
    relayStartTime, \* firmware: millis() when the relay was activated
    fStep,          \* firmware: the function that ran in the last step
    fRv,            \* firmware: <<value>> returned by the last cloud function call
    fOut,           \* firmware: the events published by the last step
    fElapsed,       \* firmware: milliseconds run since the initial state
    fActivatedAt    \* firmware: fElapsed when the relay was last activated

pvars == <<ppc, pStatus, pPrev, pNew, pResult, pReadErr, pNotify>>
cvars == <<cpc, cStatus, cTime, cState, cRv, cResp>>
fvars == <<millis, fpc, doorStatus, distance, lastSensorRead, lastPublish,
           relayActive, relayStartTime, fStep, fRv, fOut, fElapsed, fActivatedAt>>
lvars == <<now, store, published, pvars, cvars>>
vars == <<now, store, published, pvars, cvars, fvars>>

\* ---------------------------------------------------------------- bounds
StartTime == 1
MaxTime == 7261
MaxPublished == 2

\* Seconds the clock may advance in one step: 59.5 and 60.5 minutes, so that
\* open durations of 59, 60, 119, 120 and 121 minutes all occur.
TickSteps == {3570, 3630}

\* Status strings the Particle variable doorStatus can return.
\* "ajar" stands for any string the handlers do not know.
Statuses == {"open", "closed", "moving", "unknown", "ajar"}

\* ---------------------------------------------------------------- data
thresholdMinutes == 120

Nil == [nil |-> TRUE]

\* The DynamoDB item: every attribute either struct writes.  An attribute
\* that is absent from the item reads back as the zero value, so absent and
\* zero are the same item here.
Item(st, lc, lo, lcl, lbp, ns, dur) ==
    [status |-> st, lastChecked |-> lc, lastOpenedTime |-> lo,
     lastClosedTime |-> lcl, lastButtonPress |-> lbp,
     notificationSent |-> ns, durationOpenMins |-> dur]

\* monitor DoorState: no LastButtonPress field
MonitorState(st, lc, lo, lcl, ns, dur) ==
    [status |-> st, lastChecked |-> lc, lastOpenedTime |-> lo,
     lastClosedTime |-> lcl, notificationSent |-> ns, durationOpenMins |-> dur]

\* dynamodbattribute.UnmarshalMap into the monitor's DoorState
MonitorUnmarshal(item) ==
    MonitorState(item.status, item.lastChecked, item.lastOpenedTime,
                 item.lastClosedTime, item.notificationSent,
                 item.durationOpenMins)

\* dynamodbattribute.MarshalMap of the monitor's DoorState: the item that
\* PutItem stores in place of the old one carries no lastButtonPress
MonitorMarshal(s) ==
    Item(s.status, s.lastChecked, s.lastOpenedTime, s.lastClosedTime, 0,
         s.notificationSent, s.durationOpenMins)

\* monitor getDoorState: (nil, nil) when there is no item
MonitorGetDoorState ==
    IF store = Nil THEN Nil ELSE MonitorUnmarshal(store)

\* HandleMonitor's fallback when getDoorState returns an error
MonitorDefaultState == MonitorState("unknown", 0, 0, 0, FALSE, 0)

\* alexa-skill DoorState: no DurationOpenMins field
AlexaState(st, lc, lo, lcl, lbp, ns) ==
    [status |-> st, lastChecked |-> lc, lastOpenedTime |-> lo,
     lastClosedTime |-> lcl, lastButtonPress |-> lbp, notificationSent |-> ns]

\* dynamodbattribute.UnmarshalMap into the alexa-skill DoorState
AlexaUnmarshal(item) ==
    AlexaState(item.status, item.lastChecked, item.lastOpenedTime,
               item.lastClosedTime, item.lastButtonPress,
               item.notificationSent)

\* dynamodbattribute.MarshalMap of the alexa-skill DoorState: the item
\* carries no durationOpenMins
AlexaMarshal(s) ==
    Item(s.status, s.lastChecked, s.lastOpenedTime, s.lastClosedTime,
         s.lastButtonPress, s.notificationSent, 0)

\* alexa-skill getDoorState: (nil, nil) when there is no item
AlexaGetDoorState ==
    IF store = Nil THEN Nil ELSE AlexaUnmarshal(store)

\* &DoorState{DeviceID: particleDeviceID, Status: status}
AlexaEmptyState(status) == AlexaState(status, 0, 0, 0, 0, FALSE)

\* Go's integer division truncates toward zero
GoDiv(a, b) == IF a >= 0 THEN a \div b ELSE -((-a) \div b)

Outcomes(faults) == IF faults THEN BOOLEAN ELSE {TRUE}

\* ---------------------------------------------------------------- monitor
\* Mutant: every "open" observation restarts the open session
MonitorTransition_ResetOnEveryOpen(prev, status, t) ==
    LET base == MonitorState(status, t, prev.lastOpenedTime,
                             prev.lastClosedTime, prev.notificationSent, 0)
    IN  IF status = "open"
        THEN [base EXCEPT !.lastOpenedTime = t, !.notificationSent = FALSE]
        ELSE IF status = "closed" /\ status # prev.status
             THEN [base EXCEPT !.lastClosedTime = t, !.notificationSent = FALSE]
             ELSE base

\* Mutant: a transition into "open" keeps the old notificationSent
MonitorTransition_OpenKeepsSent(prev, status, t) ==
    LET base == MonitorState(status, t, prev.lastOpenedTime,
                             prev.lastClosedTime, prev.notificationSent, 0)
    IN  IF status # prev.status
        THEN IF status = "open"
             THEN [base EXCEPT !.lastOpenedTime = t]
             ELSE IF status = "closed"
                  THEN [base EXCEPT !.lastClosedTime = t,
                                    !.notificationSent = FALSE]
                  ELSE base
        ELSE base

\* Mutant: every transition resets notificationSent, also one into "moving"
MonitorTransition_ResetOnAny(prev, status, t) ==
    LET base == MonitorState(status, t, prev.lastOpenedTime,
                             prev.lastClosedTime, prev.notificationSent, 0)
    IN  IF status # prev.status
        THEN IF status = "open"
             THEN [base EXCEPT !.lastOpenedTime = t, !.notificationSent = FALSE]
             ELSE IF status = "closed"
                  THEN [base EXCEPT !.lastClosedTime = t,
                                    !.notificationSent = FALSE]
                  ELSE [base EXCEPT !.notificationSent = FALSE]
        ELSE base

\* HandleMonitor lines 107-129: newState from previousState and the status
MonitorTransition(prev, status, t) ==
    LET base == MonitorState(status, t, prev.lastOpenedTime,
                             prev.lastClosedTime, prev.notificationSent, 0)
    IN  IF status # prev.status
        THEN IF status = "open"
             THEN [base EXCEPT !.lastOpenedTime = t, !.notificationSent = FALSE]
             ELSE IF status = "closed"
                  THEN [base EXCEPT !.lastClosedTime = t,
                                    !.notificationSent = FALSE]
                  ELSE base
        ELSE base

\* Mutant: the minutes part of the duration, as sendNotification's mins
MonitorDuration_MinutesPart(s, t) ==
    IF s.status = "open" /\ s.lastOpenedTime > 0
    THEN GoDiv(t - s.lastOpenedTime, 60) % 60
    ELSE 0

\* HandleMonitor lines 131-150: DurationOpenMins
MonitorDuration(s, t) ==
    IF s.status = "open" /\ s.lastOpenedTime > 0
    THEN GoDiv(t - s.lastOpenedTime, 60)
    ELSE 0

\* HandleMonitor lines 107-150 up to the call of sendNotification
MonitorReconcile(prev, status, t) ==
    LET tr == MonitorTransition(prev, status, t)
    IN  [tr EXCEPT !.durationOpenMins = MonitorDuration(tr, t)]

\* Mutant: the NotificationSent test of line 139 is missing
MonitorShouldNotify_IgnoreSent(s) ==
    /\ s.status = "open"
    /\ s.lastOpenedTime > 0
    /\ s.durationOpenMins >= thresholdMinutes

\* Mutant: the threshold test of line 139 is missing
MonitorShouldNotify_NoThreshold(s) ==
    /\ s.status = "open"
    /\ s.lastOpenedTime > 0
    /\ ~s.notificationSent

\* Mutant: line 139 compares with > instead of >=
MonitorShouldNotify_StrictThreshold(s) ==
    /\ s.status = "open"
    /\ s.lastOpenedTime > 0
    /\ s.durationOpenMins > thresholdMinutes
    /\ ~s.notificationSent

\* HandleMonitor lines 132 and 139: whether sendNotification is called
MonitorShouldNotify(s) ==
    /\ s.status = "open"
    /\ s.lastOpenedTime > 0
    /\ s.durationOpenMins >= thresholdMinutes
    /\ ~s.notificationSent

\* HandleMonitor returns or panics
MonitorReturn(result) ==
    /\ ppc' = "done"
    /\ pResult' = result
    /\ UNCHANGED <<pStatus, pPrev, pNew, pReadErr, pNotify>>

\* Mutant: a failed status read is recorded as status "unknown"
PollGetStatus_WritesOnError(faults, seq) ==
    /\ ppc = "idle"
    /\ seq => cpc = "idle"
    /\ Len(published) < MaxPublished
    /\ \E ok \in Outcomes(faults), s \in Statuses :
          IF ok
          THEN /\ ppc' = "getState"
               /\ pStatus' = s
               /\ UNCHANGED <<store, pPrev, pNew, pResult, pReadErr, pNotify>>
          ELSE /\ store' = MonitorMarshal(MonitorState("unknown", now, 0, 0, FALSE, 0))
               /\ MonitorReturn("error")
    /\ UNCHANGED <<now, published, cvars>>
    /\ UNCHANGED fvars

\* getDoorStatus, lines 88-92: an error ends the invocation
PollGetStatus(faults, seq) ==
    /\ ppc = "idle"
    /\ seq => cpc = "idle"
    /\ Len(published) < MaxPublished
    /\ \E ok \in Outcomes(faults), s \in Statuses :
          IF ok
          THEN /\ ppc' = "getState"
               /\ pStatus' = s
               /\ UNCHANGED <<pPrev, pNew, pResult, pReadErr, pNotify>>
          ELSE MonitorReturn("error")
    /\ UNCHANGED <<now, store, published, cvars>>
    /\ UNCHANGED fvars

\* Mutant: a GetItem error ends the invocation like a status read error
PollGetState_AbortOnReadError(faults) ==
    /\ ppc = "getState"
    /\ \E ok \in Outcomes(faults) :
          IF ~ok
          THEN /\ ppc' = "done"
               /\ pResult' = "error"
               /\ pReadErr' = TRUE
               /\ UNCHANGED <<pStatus, pPrev, pNew, pNotify>>
          ELSE IF MonitorGetDoorState = Nil
               THEN MonitorReturn("panic")
               ELSE LET ns == MonitorReconcile(MonitorGetDoorState, pStatus, now)
                    IN  /\ pPrev' = MonitorGetDoorState
                        /\ pNew' = ns
                        /\ ppc' = IF MonitorShouldNotify(ns)
                                  THEN "notify" ELSE "save"
                        /\ UNCHANGED <<pStatus, pResult, pReadErr, pNotify>>
    /\ UNCHANGED <<now, store, published, cvars>>
    /\ UNCHANGED fvars

\* getDoorState and the reconciliation, lines 97-139.  On a GetItem error
\* previousState is the default; with no item getDoorState returns (nil, nil),
\* previousState stays nil and line 113 dereferences it: the invocation
\* panics before any write.
PollGetState(faults) ==
    /\ ppc = "getState"
    /\ \E ok \in Outcomes(faults) :
          LET prev == IF ok THEN MonitorGetDoorState ELSE MonitorDefaultState
          IN  IF prev = Nil
              THEN MonitorReturn("panic")
              ELSE LET ns == MonitorReconcile(prev, pStatus, now)
                   IN  /\ pPrev' = prev
                       /\ pNew' = ns
                       /\ pReadErr' = ~ok
                       /\ ppc' = IF MonitorShouldNotify(ns)
                                 THEN "notify" ELSE "save"
                       /\ UNCHANGED <<pStatus, pResult, pNotify>>
    /\ UNCHANGED <<now, store, published, cvars>>
    /\ UNCHANGED fvars

\* Mutant: NotificationSent is set whether or not the publish succeeded
PollNotify_MarkAlways(faults) ==
    /\ ppc = "notify"
    /\ \E ok \in Outcomes(faults) :
          /\ published' = IF ok
                          THEN Append(published,
                                      [dur |-> pNew.durationOpenMins,
                                       openedAt |-> pNew.lastOpenedTime])
                          ELSE published
          /\ pNotify' = IF ok THEN "sent" ELSE "failed"
    /\ pNew' = [pNew EXCEPT !.notificationSent = TRUE]
    /\ ppc' = "save"
    /\ UNCHANGED <<now, store, pStatus, pPrev, pResult, pReadErr, cvars>>
    /\ UNCHANGED fvars

\* sendNotification, lines 140-146
PollNotify(faults) ==
    /\ ppc = "notify"
    /\ \E ok \in Outcomes(faults) :
          IF ok
          THEN /\ published' = Append(published,
                     [dur |-> pNew.durationOpenMins,
                      openedAt |-> pNew.lastOpenedTime])
               /\ pNew' = [pNew EXCEPT !.notificationSent = TRUE]
               /\ pNotify' = "sent"
          ELSE /\ pNotify' = "failed"
               /\ UNCHANGED <<published, pNew>>
    /\ ppc' = "save"
    /\ UNCHANGED <<now, store, pStatus, pPrev, pResult, pReadErr, cvars>>
    /\ UNCHANGED fvars

\* Mutant: the save is conditional on the record still being the one read
PollSave_OnlyIfUnchanged(faults) ==
    /\ ppc = "save"
    /\ \E ok \in Outcomes(faults) :
          IF ok /\ MonitorGetDoorState = pPrev
          THEN /\ store' = MonitorMarshal(pNew)
               /\ MonitorReturn("ok")
          ELSE IF ok
          THEN /\ UNCHANGED store
               /\ MonitorReturn("ok")
          ELSE /\ UNCHANGED store
               /\ MonitorReturn("error")
    /\ UNCHANGED <<now, published, cvars>>
    /\ UNCHANGED fvars

\* saveDoorState, lines 153-160
PollSave(faults) ==
    /\ ppc = "save"
    /\ \E ok \in Outcomes(faults) :
          IF ok
          THEN /\ store' = MonitorMarshal(pNew)
               /\ MonitorReturn("ok")
          ELSE /\ UNCHANGED store
               /\ MonitorReturn("error")
    /\ UNCHANGED <<now, published, cvars>>
    /\ UNCHANGED fvars

\* the invocation is over: the lambda is ready for the next scheduled event
PollExit ==
    /\ ppc = "done"
    /\ ppc' = "idle"
    /\ pStatus' = ""
    /\ pPrev' = Nil
    /\ pNew' = MonitorDefaultState
    /\ pResult' = "none"
    /\ pReadErr' = FALSE
    /\ pNotify' = "none"
    /\ UNCHANGED <<now, store, published, cvars>>
    /\ UNCHANGED fvars

\* ---------------------------------------------------------------- command handler
NoPhrase == [form |-> "none", h |-> 0, m |-> 0]

Speech(msg, status, phrase) == [msg |-> msg, status |-> status, open |-> phrase]

\* buildResponse, with the nil error every handler returns beside it
buildResponse(text, shouldEnd) ==
    [version |-> "1.0",
     outputSpeech |-> [type |-> "PlainText", text |-> text],
     shouldEndSession |-> shouldEnd,
     err |-> "nil"]

NoResponse == [pending |-> TRUE]

\* handleGetStatus lines 230-239: the elapsed-time clause
AlexaPhrase(openMins) ==
    IF openMins > 60
    THEN [form |-> "hours", h |-> GoDiv(openMins, 60), m |-> openMins % 60]
    ELSE IF openMins > 0
         THEN [form |-> "minutes", h |-> 0, m |-> openMins]
         ELSE NoPhrase

\* Mutant: a transition into "open" does not stamp lastOpenedTime
AlexaTransition_OpenKeepsTime(state, status, t) ==
    LET base == [state EXCEPT !.status = status, !.lastChecked = t]
    IN  IF status # state.status
        THEN IF status = "open"
             THEN [base EXCEPT !.notificationSent = FALSE]
             ELSE IF status = "closed"
                  THEN [base EXCEPT !.lastClosedTime = t,
                                    !.notificationSent = FALSE]
                  ELSE base
        ELSE base

\* Mutant: a transition into "closed" keeps the old notificationSent
AlexaTransition_NoResetOnClosed(state, status, t) ==
    LET base == [state EXCEPT !.status = status, !.lastChecked = t]
    IN  IF status # state.status
        THEN IF status = "open"
             THEN [base EXCEPT !.lastOpenedTime = t, !.notificationSent = FALSE]
             ELSE IF status = "closed"
                  THEN [base EXCEPT !.lastClosedTime = t]
                  ELSE base
        ELSE base

\* updateDoorStatus lines 457-472
AlexaTransition(state, status, t) ==
    LET base == [state EXCEPT !.status = status, !.lastChecked = t]
    IN  IF status # state.status
        THEN IF status = "open"
             THEN [base EXCEPT !.lastOpenedTime = t, !.notificationSent = FALSE]
             ELSE IF status = "closed"
                  THEN [base EXCEPT !.lastClosedTime = t,
                                    !.notificationSent = FALSE]
                  ELSE base
        ELSE base

\* updateButtonPress lines 411-413
AlexaButtonPress(state, t) ==
    [state EXCEPT !.lastButtonPress = t, !.lastChecked = t]

\* the state updateButtonPress/updateDoorStatus works on, lines 395-409 and
\* 443-455: the item read, or an empty DoorState on an error or no item
AlexaLoad(ok, status) ==
    IF ok /\ AlexaGetDoorState # Nil
    THEN AlexaGetDoorState
    ELSE AlexaEmptyState(status)

\* HandleRequest returns
AlexaReturn(text, shouldEnd) ==
    /\ cpc' = "done"
    /\ cResp' = buildResponse(text, shouldEnd)
    /\ UNCHANGED <<cStatus, cTime, cState>>

RequestTypes == {"LaunchRequest", "IntentRequest", "SessionEndedRequest", "Other"}

Intents == {"PressButtonIntent", "GetStatusIntent", "AMAZON.HelpIntent",
            "AMAZON.CancelIntent", "AMAZON.StopIntent", "Other"}

\* The return_value of the pressButton function call
ReturnValues == {-1, 0, 1}

\* Mutant: an unknown intent is returned as an error, without a response
CmdStart_ErrorOnUnknownIntent(seq) ==
    /\ cpc = "idle"
    /\ seq => ppc = "idle"
    /\ \E type \in RequestTypes, intent \in Intents :
          IF type = "LaunchRequest"
          THEN AlexaReturn(Speech("Garage door controller ready.", "", NoPhrase), FALSE)
          ELSE IF type = "SessionEndedRequest"
          THEN AlexaReturn(Speech("Goodbye", "", NoPhrase), TRUE)
          ELSE IF type # "IntentRequest"
          THEN AlexaReturn(Speech("I don't understand that request.", "", NoPhrase), TRUE)
          ELSE IF intent = "PressButtonIntent"
          THEN /\ cpc' = "callFunction"
               /\ UNCHANGED <<cStatus, cTime, cState, cResp>>
          ELSE IF intent = "GetStatusIntent"
          THEN /\ cpc' = "getVariable"
               /\ UNCHANGED <<cStatus, cTime, cState, cResp>>
          ELSE IF intent = "AMAZON.HelpIntent"
          THEN AlexaReturn(Speech("You can say 'press button'", "", NoPhrase), FALSE)
          ELSE IF intent \in {"AMAZON.CancelIntent", "AMAZON.StopIntent"}
          THEN AlexaReturn(Speech("Goodbye", "", NoPhrase), TRUE)
          ELSE /\ cpc' = "done"
               /\ cResp' = [err |-> "unknown intent"]
               /\ UNCHANGED <<cStatus, cTime, cState>>
    /\ UNCHANGED <<now, store, published, pvars, cRv>>
    /\ UNCHANGED fvars

\* HandleRequest and handleIntent, lines 139-179, 246-254
CmdStart(seq) ==
    /\ cpc = "idle"
    /\ seq => ppc = "idle"
    /\ \E type \in RequestTypes, intent \in Intents :
          IF type = "LaunchRequest"
          THEN AlexaReturn(Speech("Garage door controller ready.", "", NoPhrase), FALSE)
          ELSE IF type = "SessionEndedRequest"
          THEN AlexaReturn(Speech("Goodbye", "", NoPhrase), TRUE)
          ELSE IF type # "IntentRequest"
          THEN AlexaReturn(Speech("I don't understand that request.", "", NoPhrase), TRUE)
          ELSE IF intent = "PressButtonIntent"
          THEN /\ cpc' = "callFunction"
               /\ UNCHANGED <<cStatus, cTime, cState, cResp>>
          ELSE IF intent = "GetStatusIntent"
          THEN /\ cpc' = "getVariable"
               /\ UNCHANGED <<cStatus, cTime, cState, cResp>>
          ELSE IF intent = "AMAZON.HelpIntent"
          THEN AlexaReturn(Speech("You can say 'press button'", "", NoPhrase), FALSE)
          ELSE IF intent \in {"AMAZON.CancelIntent", "AMAZON.StopIntent"}
          THEN AlexaReturn(Speech("Goodbye", "", NoPhrase), TRUE)
          ELSE AlexaReturn(Speech("I don't understand that command.", "", NoPhrase), TRUE)
    /\ UNCHANGED <<now, store, published, pvars, cRv>>
    /\ UNCHANGED fvars

\* Mutant: the press is recorded whatever the function returned
CmdCallFunction_RecordsAlways(faults) ==
    /\ cpc = "callFunction"
    /\ \E ok \in Outcomes(faults), rv \in ReturnValues :
          IF ~ok
          THEN /\ AlexaReturn(Speech("Sorry, I couldn't communicate with the garage door opener.",
                                     "", NoPhrase), TRUE)
               /\ UNCHANGED cRv
          ELSE /\ cRv' = <<rv>>
               /\ cpc' = "pressGet"
               /\ cTime' = now
               /\ UNCHANGED <<cStatus, cState, cResp>>
    /\ UNCHANGED <<now, store, published, pvars>>
    /\ UNCHANGED fvars

\* handlePressButton lines 184-205 with callParticleFunction: success is
\* return_value == 1; updateButtonPress then takes currentTime (line 392)
CmdCallFunction(faults) ==
    /\ cpc = "callFunction"
    /\ \E ok \in Outcomes(faults), rv \in ReturnValues :
          IF ~ok
          THEN /\ AlexaReturn(Speech("Sorry, I couldn't communicate with the garage door opener.",
                                     "", NoPhrase), TRUE)
               /\ UNCHANGED cRv
          ELSE /\ cRv' = <<rv>>
               /\ IF rv = 1
                  THEN /\ cpc' = "pressGet"
                       /\ cTime' = now
                       /\ UNCHANGED <<cStatus, cState, cResp>>
                  ELSE AlexaReturn(Speech("The garage door button is already active.",
                                          "", NoPhrase), TRUE)
    /\ UNCHANGED <<now, store, published, pvars>>
    /\ UNCHANGED fvars

\* updateButtonPress lines 395-413
CmdPressGet(faults) ==
    /\ cpc = "pressGet"
    /\ \E ok \in Outcomes(faults) :
          cState' = AlexaButtonPress(AlexaLoad(ok, "unknown"), cTime)
    /\ cpc' = "pressPut"
    /\ UNCHANGED <<now, store, published, pvars, cStatus, cTime, cRv, cResp>>
    /\ UNCHANGED fvars

\* Mutant: a failed write of the button press fails the command
CmdPressPut_FailsOnStoreError(faults) ==
    /\ cpc = "pressPut"
    /\ \E ok \in Outcomes(faults) :
          /\ store' = IF ok THEN AlexaMarshal(cState) ELSE store
          /\ IF ok
             THEN AlexaReturn(Speech("Garage door button pressed.", "", NoPhrase), TRUE)
             ELSE AlexaReturn(Speech("Sorry, I couldn't communicate with the garage door opener.",
                                     "", NoPhrase), TRUE)
    /\ UNCHANGED <<now, published, pvars, cRv>>
    /\ UNCHANGED fvars

\* updateButtonPress lines 416-431, handlePressButton lines 195-201
CmdPressPut(faults) ==
    /\ cpc = "pressPut"
    /\ \E ok \in Outcomes(faults) :
          store' = IF ok THEN AlexaMarshal(cState) ELSE store
    /\ AlexaReturn(Speech("Garage door button pressed.", "", NoPhrase), TRUE)
    /\ UNCHANGED <<now, published, pvars, cRv>>
    /\ UNCHANGED fvars

\* Mutant: a failed status read is recorded in the store as "unknown"
CmdGetVariable_WritesUnknownOnError(faults) ==
    /\ cpc = "getVariable"
    /\ \E ok \in Outcomes(faults), s \in Statuses :
          IF ok
          THEN /\ cpc' = "statusGet"
               /\ cStatus' = s
               /\ cTime' = now
               /\ UNCHANGED <<cState, cResp, store>>
          ELSE /\ AlexaReturn(Speech("Sorry, I couldn't get the garage door status.",
                                     "", NoPhrase), TRUE)
               /\ store' = AlexaMarshal(AlexaTransition(AlexaLoad(TRUE, ""),
                                                        "unknown", now))
    /\ UNCHANGED <<now, published, pvars, cRv>>
    /\ UNCHANGED fvars

\* handleGetStatus lines 212-217; updateDoorStatus then takes currentTime
\* (line 440)
CmdGetVariable(faults) ==
    /\ cpc = "getVariable"
    /\ \E ok \in Outcomes(faults), s \in Statuses :
          IF ok
          THEN /\ cpc' = "statusGet"
               /\ cStatus' = s
               /\ cTime' = now
               /\ UNCHANGED <<cState, cResp>>
          ELSE AlexaReturn(Speech("Sorry, I couldn't get the garage door status.",
                                  "", NoPhrase), TRUE)
    /\ UNCHANGED <<now, store, published, pvars, cRv>>
    /\ UNCHANGED fvars

\* updateDoorStatus lines 443-472
CmdStatusGet(faults) ==
    /\ cpc = "statusGet"
    /\ \E ok \in Outcomes(faults) :
          cState' = AlexaTransition(AlexaLoad(ok, ""), cStatus, cTime)
    /\ cpc' = "statusPut"
    /\ UNCHANGED <<now, store, published, pvars, cStatus, cTime, cRv, cResp>>
    /\ UNCHANGED fvars

\* updateDoorStatus lines 475-490, handleGetStatus lines 221-228 and 242
CmdStatusPut(faults) ==
    /\ cpc = "statusPut"
    /\ \E ok \in Outcomes(faults) :
          store' = IF ok THEN AlexaMarshal(cState) ELSE store
    /\ IF cStatus = "open"
       THEN /\ cpc' = "infoGet"
            /\ UNCHANGED <<cStatus, cTime, cState, cResp>>
       ELSE AlexaReturn(Speech("The garage door is currently", cStatus, NoPhrase),
                        TRUE)
    /\ UNCHANGED <<now, published, pvars, cRv>>
    /\ UNCHANGED fvars

\* handleGetStatus lines 229-243
CmdInfoGet(faults) ==
    /\ cpc = "infoGet"
    /\ \E ok \in Outcomes(faults) :
          LET state == IF ok THEN AlexaGetDoorState ELSE Nil
              info == IF state # Nil /\ state.lastOpenedTime > 0
                      THEN AlexaPhrase(GoDiv(now - state.lastOpenedTime, 60))
                      ELSE NoPhrase
          IN  AlexaReturn(Speech("The garage door is currently", cStatus, info),
                          TRUE)
    /\ UNCHANGED <<now, store, published, pvars, cRv>>
    /\ UNCHANGED fvars

\* the invocation is over: the lambda is ready for the next request
CmdExit ==
    /\ cpc = "done"
    /\ cpc' = "idle"
    /\ cStatus' = ""
    /\ cTime' = 0
    /\ cState' = AlexaEmptyState("")
    /\ cRv' = << >>
    /\ cResp' = NoResponse
    /\ UNCHANGED <<now, store, published, pvars>>
    /\ UNCHANGED fvars

\* ---------------------------------------------------------------- firmware
\* unsigned long is 32 bits wide: a value is kept as two 16-bit halves
Half == 65536

U32(hi, lo) == [hi |-> hi, lo |-> lo]

\* a + d in unsigned long arithmetic, 0 <= d < Half
U32Add(a, d) ==
    LET l == a.lo + d
    IN  U32((a.hi + (l \div Half)) % Half, l % Half)

\* a - b in unsigned long arithmetic
U32Sub(a, b) ==
    LET l == a.lo - b.lo
        borrow == IF l < 0 THEN 1 ELSE 0
    IN  U32((a.hi - b.hi - borrow + Half) % Half, (l + Half) % Half)

\* a >= n for an unsigned long a and a constant 0 <= n < Half
U32AtLeast(a, n) == a.hi > 0 \/ a.lo >= n

\* a >= b for two unsigned longs
U32Geq(a, b) == a.hi > b.hi \/ (a.hi = b.hi /\ a.lo >= b.lo)

DOOR_CLOSED_THRESHOLD == 500

DOOR_OPEN_THRESHOLD == 2000

RELAY_PULSE_DURATION == 1000

SensorPeriod == 500

DistancePeriod == 10000

\* Milliseconds one pass of loop() may take, delay(10) included
TickMs == {490, 510}

MinTick == 490

\* Milliseconds the firmware is followed for
MaxElapsed == 3100

\* Distances the sensor may report, mm: both thresholds and their neighbours
Distances == {0, 499, 500, 2000, 2001}

\* millis() and lastPublish where the firmware is picked up: right after
\* boot, and 600 ms before millis() wraps around
StartStates ==
    { [millis |-> U32(0, 0), lastPublish |-> U32(0, 0)],
      [millis |-> U32(Half - 1, Half - 600), lastPublish |-> U32(Half - 1, Half - 8600)] }

Event(name, data) == [name |-> name, data |-> data]

firmwareLeavesLambdas == UNCHANGED lvars

\* readSensor lines 191-197
StatusOfDistance(d) ==
    IF d < DOOR_CLOSED_THRESHOLD THEN "closed"
    ELSE IF d > DOOR_OPEN_THRESHOLD THEN "open"
    ELSE "moving"

\* Mutant: the pulse ends at the deadline relayStartTime + 1000, compared
\* without regard to wrap-around
FwLoopRelay_AbsoluteDeadline ==
    /\ fpc = "relay"
    /\ IF relayActive /\ U32Geq(millis, U32Add(relayStartTime, RELAY_PULSE_DURATION))
       THEN /\ relayActive' = FALSE
            /\ fOut' = <<Event("relay/deactivated", "true")>>
       ELSE /\ UNCHANGED relayActive
            /\ fOut' = << >>
    /\ fpc' = "sensor"
    /\ fStep' = "loop"
    /\ UNCHANGED <<millis, doorStatus, distance, lastSensorRead, lastPublish,
                   relayStartTime, fRv, fElapsed, fActivatedAt>>
    /\ firmwareLeavesLambdas

\* loop() lines 101-104 with deactivateRelay
FwLoopRelay ==
    /\ fpc = "relay"
    /\ IF relayActive /\ U32AtLeast(U32Sub(millis, relayStartTime), RELAY_PULSE_DURATION)
       THEN /\ relayActive' = FALSE
            /\ fOut' = <<Event("relay/deactivated", "true")>>
       ELSE /\ UNCHANGED relayActive
            /\ fOut' = << >>
    /\ fpc' = "sensor"
    /\ fStep' = "loop"
    /\ UNCHANGED <<millis, doorStatus, distance, lastSensorRead, lastPublish,
                   relayStartTime, fRv, fElapsed, fActivatedAt>>
    /\ firmwareLeavesLambdas

\* loop() lines 106-110 with readSensor.  oldStatus (line 189) is a pointer
\* to the doorStatus buffer itself, so the strcmp of line 200 reads the
\* status just copied into it.
FwLoopSensor ==
    /\ fpc = "sensor"
    /\ IF U32AtLeast(U32Sub(millis, lastSensorRead), SensorPeriod)
       THEN /\ \E dataReady \in BOOLEAN, d \in Distances :
                 IF dataReady
                 THEN LET newStatus == StatusOfDistance(d)
                          oldStatus == newStatus
                          statusEvent == IF oldStatus # newStatus
                                         THEN <<Event("door/status", newStatus)>>
                                         ELSE << >>
                          due == U32AtLeast(U32Sub(millis, lastPublish), DistancePeriod)
                      IN  /\ distance' = d
                          /\ doorStatus' = newStatus
                          /\ lastPublish' = IF due THEN millis ELSE lastPublish
                          /\ fOut' = statusEvent \o
                                       (IF due THEN <<Event("door/distance", d)>>
                                        ELSE << >>)
                 ELSE /\ UNCHANGED <<distance, doorStatus, lastPublish>>
                      /\ fOut' = << >>
            /\ lastSensorRead' = millis
            /\ fStep' = "readSensor"
       ELSE /\ UNCHANGED <<distance, doorStatus, lastPublish, lastSensorRead>>
            /\ fOut' = << >>
            /\ fStep' = "loop"
    /\ fpc' = "delay"
    /\ UNCHANGED <<millis, relayActive, relayStartTime, fRv, fElapsed, fActivatedAt>>
    /\ firmwareLeavesLambdas

\* loop() lines 112-118: the display is redrawn and the pass ends in delay(10)
FwLoopDelay ==
    /\ fpc = "delay"
    /\ \E d \in TickMs :
          /\ fElapsed + d <= MaxElapsed
          /\ millis' = U32Add(millis, d)
          /\ fElapsed' = fElapsed + d
    /\ fpc' = "relay"
    /\ fStep' = "loop"
    /\ fOut' = << >>
    /\ UNCHANGED <<doorStatus, distance, lastSensorRead, lastPublish, relayActive,
                   relayStartTime, fRv, fActivatedAt>>
    /\ firmwareLeavesLambdas

\* Mutant: a press during a pulse restarts the pulse
FwPressButton_Retriggers ==
    /\ fpc = "relay"
    /\ IF ~relayActive
       THEN /\ fElapsed + RELAY_PULSE_DURATION + MinTick <= MaxElapsed
            /\ relayActive' = TRUE
            /\ relayStartTime' = millis
            /\ fActivatedAt' = fElapsed
            /\ fOut' = <<Event("relay/activated", "true")>>
            /\ fRv' = <<1>>
       ELSE /\ UNCHANGED <<relayActive, fActivatedAt>>
            /\ relayStartTime' = millis
            /\ fOut' = << >>
            /\ fRv' = <<0>>
    /\ fStep' = "pressButton"
    /\ UNCHANGED <<millis, fpc, doorStatus, distance, lastSensorRead, lastPublish,
                   fElapsed>>
    /\ firmwareLeavesLambdas

\* pressButtonHandler lines 318-328 with activateRelay lines 290-302; cloud
\* functions run between two passes of loop().  A press that activates the
\* relay is taken while the pulse still fits into MaxElapsed.
FwPressButton ==
    /\ fpc = "relay"
    /\ IF ~relayActive
       THEN /\ fElapsed + RELAY_PULSE_DURATION + MinTick <= MaxElapsed
            /\ relayActive' = TRUE
            /\ relayStartTime' = millis
            /\ fActivatedAt' = fElapsed
            /\ fOut' = <<Event("relay/activated", "true")>>
            /\ fRv' = <<1>>
       ELSE /\ UNCHANGED <<relayActive, relayStartTime, fActivatedAt>>
            /\ fOut' = << >>
            /\ fRv' = <<0>>
    /\ fStep' = "pressButton"
    /\ UNCHANGED <<millis, fpc, doorStatus, distance, lastSensorRead, lastPublish,
                   fElapsed>>
    /\ firmwareLeavesLambdas

\* getStatusHandler lines 331-342
FwGetStatus ==
    /\ fpc = "relay"
    /\ fRv' = <<IF doorStatus = "closed" THEN 0
                ELSE IF doorStatus = "open" THEN 1 ELSE 2>>
    /\ fStep' = "getStatus"
    /\ fOut' = << >>
    /\ UNCHANGED <<millis, fpc, doorStatus, distance, lastSensorRead, lastPublish,
                   relayActive, relayStartTime, fElapsed, fActivatedAt>>
    /\ firmwareLeavesLambdas

\* the globals of lines 55-60 after setup(), picked up at start state s
FirmwareInit(s) ==
    /\ millis = s.millis
    /\ fpc = "relay"
    /\ doorStatus = "unknown"
    /\ distance = 0
    /\ lastSensorRead = s.millis
    /\ lastPublish = s.lastPublish
    /\ relayActive = FALSE
    /\ relayStartTime = U32(0, 0)
    /\ fStep = "setup"
    /\ fRv = << >>
    /\ fOut = << >>
    /\ fElapsed = 0
    /\ fActivatedAt = 0

\* ---------------------------------------------------------------- clock
Tick ==
    /\ \E d \in TickSteps : now + d <= MaxTime /\ now' = now + d
    /\ UNCHANGED <<store, published, pvars, cvars>>
    /\ UNCHANGED fvars

LambdaInit ==
    /\ now = StartTime
    /\ store = Nil
    /\ published = << >>
    /\ ppc = "idle"
    /\ pStatus = ""
    /\ pPrev = Nil
    /\ pNew = MonitorDefaultState
    /\ pResult = "none"
    /\ pReadErr = FALSE
    /\ pNotify = "none"
    /\ cpc = "idle"
    /\ cStatus = ""
    /\ cTime = 0
    /\ cState = AlexaEmptyState("")
    /\ cRv = << >>
    /\ cResp = NoResponse

\* the lambdas, beside a device that has just booted
Init ==
    /\ LambdaInit
    /\ FirmwareInit([millis |-> U32(0, 0), lastPublish |-> U32(0, 0)])

\* the firmware, from either start state
InitFirmware ==
    /\ LambdaInit
    /\ \E s \in StartStates : FirmwareInit(s)

\* Invocations of the two lambdas, one at a time or interleaved, with or
\* without failing external calls
Steps(faults, seq) ==
    \/ PollGetStatus(faults, seq)
    \/ PollGetState(faults)
    \/ PollNotify(faults)
    \/ PollSave(faults)
    \/ PollExit
    \/ CmdStart(seq)
    \/ CmdCallFunction(faults)
    \/ CmdPressGet(faults)
    \/ CmdPressPut(faults)
    \/ CmdGetVariable(faults)
    \/ CmdStatusGet(faults)
    \/ CmdStatusPut(faults)
    \/ CmdInfoGet(faults)
    \/ CmdExit
    \/ Tick

\* one invocation at a time, external calls may fail
Next == Steps(TRUE, TRUE)

Spec == Init /\ [][Next]_vars

\* one invocation at a time, every external call succeeds
NextReliable == Steps(FALSE, TRUE)

SpecReliable == Init /\ [][NextReliable]_vars

\* The statuses the device reports while the two lambdas run interleaved
ConcurrentStatuses == {"open", "closed"}

\* interleaved invocations of the poller and of the command handler, every
\* external call succeeding; the poller sees the door open or closed, the
\* command handler sees it open
NextConcurrent ==
    \/ PollGetStatus(FALSE, FALSE) /\ pStatus' \in ConcurrentStatuses
    \/ PollGetState(FALSE)
    \/ PollNotify(FALSE)
    \/ PollSave(FALSE)
    \/ PollExit
    \/ CmdStart(FALSE)
    \/ CmdCallFunction(FALSE)
    \/ CmdPressGet(FALSE)
    \/ CmdPressPut(FALSE)
    \/ CmdGetVariable(FALSE) /\ (cpc' = "statusGet" => cStatus' = "open")
    \/ CmdStatusGet(FALSE)
    \/ CmdStatusPut(FALSE)
    \/ CmdInfoGet(FALSE)
    \/ CmdExit
    \/ Tick

SpecConcurrent == Init /\ [][NextConcurrent]_vars

\* interleaved invocations of the poller and of get-status commands only,
\* every external call succeeding
NextPollAndStatus ==
    \/ PollGetStatus(FALSE, FALSE) /\ pStatus' \in ConcurrentStatuses
    \/ PollGetState(FALSE)
    \/ PollNotify(FALSE)
    \/ PollSave(FALSE)
    \/ PollExit
    \/ CmdStart(FALSE) /\ cpc' = "getVariable"
    \/ CmdGetVariable(FALSE) /\ cStatus' \in ConcurrentStatuses
    \/ CmdStatusGet(FALSE)
    \/ CmdStatusPut(FALSE)
    \/ CmdInfoGet(FALSE)
    \/ CmdExit
    \/ Tick

SpecPollAndStatus == Init /\ [][NextPollAndStatus]_vars

\* a successful sendNotification
NotifyOk == PollNotify(TRUE) /\ pNotify' = "sent"

\* The door is open from StartTime on: every status read returns "open",
\* store calls succeed, a dispatch may fail; a get-status command may be
\* served at StartTime, one invocation at a time
NextDoorOpen ==
    \/ PollGetStatus(FALSE, TRUE) /\ pStatus' = "open"
    \/ PollGetState(FALSE)
    \/ PollNotify(TRUE)
    \/ PollSave(FALSE)
    \/ PollExit
    \/ CmdStart(TRUE) /\ cpc' = "getVariable" /\ now = StartTime
    \/ CmdGetVariable(FALSE) /\ cStatus' = "open"
    \/ CmdStatusGet(FALSE)
    \/ CmdStatusPut(FALSE)
    \/ CmdInfoGet(FALSE)
    \/ CmdExit
    \/ Tick /\ cpc = "idle"

\* the schedule keeps invoking the poller, every invocation runs to its end,
\* time advances, and a dispatch succeeds if tried again and again
SpecDoorOpenFair ==
    /\ Init
    /\ [][NextDoorOpen]_vars
    /\ WF_vars(PollGetStatus(FALSE, TRUE) /\ pStatus' = "open")
    /\ WF_vars(PollGetState(FALSE))
    /\ WF_vars(PollNotify(TRUE))
    /\ SF_vars(NotifyOk)
    /\ WF_vars(PollSave(FALSE))
    /\ WF_vars(PollExit)
    /\ WF_vars(CmdGetVariable(FALSE) /\ cStatus' = "open")
    /\ WF_vars(CmdStatusGet(FALSE))
    /\ WF_vars(CmdStatusPut(FALSE))
    /\ WF_vars(CmdInfoGet(FALSE))
    /\ WF_vars(CmdExit)
    /\ WF_vars(Tick /\ cpc = "idle")

\* the firmware: passes of loop() with cloud function calls between them
NextFirmware ==
    \/ FwLoopRelay
    \/ FwLoopSensor
    \/ FwLoopDelay
    \/ FwPressButton
    \/ FwGetStatus

SpecFirmware == InitFirmware /\ [][NextFirmware]_vars

\* loop() is called again and again for as long as the device runs
SpecFirmwareFair ==
    /\ InitFirmware
    /\ [][NextFirmware]_vars
    /\ WF_vars(FwLoopRelay)
    /\ WF_vars(FwLoopSensor)
    /\ WF_vars(FwLoopDelay)

\* ================================================================ claims
\* the step in which HandleMonitor reads the previous state and reconciles
PollReconciled == ppc = "getState" /\ ppc' \in {"notify", "save"}

\* the step in which saveDoorState succeeds
PollSaved == ppc = "save" /\ ppc' = "done" /\ pResult' = "ok"

StoreSent == store # Nil /\ store.notificationSent

\* C1: with every external call succeeding, no two notifications are
\* published for the same open session (the same lastOpenedTime), and a poll
\* that observes "open" past the threshold publishes exactly when the
\* previous record was not yet marked notified, and leaves it marked.
C1_NotifyOncePerSession ==
    /\ \A i, j \in 1..Len(published) :
          published[i].openedAt = published[j].openedAt => i = j
    /\ (/\ ppc = "done"
        /\ pResult = "ok"
        /\ pStatus = "open"
        /\ pNew.durationOpenMins >= thresholdMinutes)
       => /\ pNew.notificationSent
          /\ (pNotify = "sent") <=> ~pPrev.notificationSent
          /\ \E i \in 1..Len(published) :
                published[i].openedAt = pNew.lastOpenedTime

\* a later poll of an already notified session publishes nothing
C1_Witness ==
    /\ ppc = "done"
    /\ pResult = "ok"
    /\ pStatus = "open"
    /\ pNew.durationOpenMins >= thresholdMinutes
    /\ pNotify = "none"
    /\ Len(published) = 1
    /\ published[1].openedAt = pNew.lastOpenedTime

\* C2: with no item in the store, a poll that observes "open" at time T
\* reconciles against the default state: it goes on to save status "open",
\* lastOpenedTime T, duration 0, and calls no sendNotification.
C2_NoRecordPollCompletes ==
    [][(ppc = "getState" /\ ppc' # "getState" /\ store = Nil /\ pStatus = "open")
       => /\ ppc' = "save"
          /\ pPrev' = MonitorDefaultState
          /\ pNew' = MonitorState("open", now, now, 0, FALSE, 0)]_vars

\* C3: the saved record has notificationSent true exactly when
\* sendNotification was called and succeeded; after a failed publish the
\* poll still saves, and a later poll that reads such a record (open, not
\* notified, past the threshold) and observes "open" calls sendNotification
\* again.
C3_SentOnlyOnDispatchSuccess ==
    [][/\ (PollSaved /\ pNotify # "none")
          => (store'.notificationSent <=> pNotify = "sent")
       /\ (ppc = "notify" /\ ppc' # "notify") => ppc' = "save"
       /\ (/\ ppc = "getState"
           /\ ppc' # "getState"
           /\ pStatus = "open"
           /\ ~pReadErr'
           /\ store # Nil
           /\ store.status = "open"
           /\ ~store.notificationSent
           /\ store.durationOpenMins >= thresholdMinutes)
          => ppc' = "notify"]_vars

\* a poll retries the publish for a record an earlier poll left unnotified
C3_Witness ==
    /\ ppc = "notify"
    /\ pPrev.status = "open"
    /\ ~pPrev.notificationSent
    /\ pPrev.durationOpenMins >= thresholdMinutes

\* C4: a poll whose status read fails ends with an error in that very step,
\* leaving the store and the published notifications as they were; the
\* reconciliation only ever runs with a status that was read.
C4_StatusReadFailureWritesNothing ==
    [][/\ (ppc = "idle" /\ ppc' = "done")
          => (pResult' = "error" /\ store' = store /\ published' = published)
       /\ (ppc' \in {"getState", "notify", "save"}) => pStatus' \in Statuses]_vars

\* a failed status read with a record in the store
C4_Witness ==
    ppc = "done" /\ pResult = "error" /\ pStatus = "" /\ store # Nil

\* C5: when getDoorState returns an error the poll goes on: previousState is
\* the default (unknown, zero timestamps, not notified), the new state is the
\* reconciliation against it, and a successful save stores that state.
C5_ReadFailureFallsBack ==
    [][/\ (ppc = "getState" /\ pReadErr')
          => /\ ppc' \in {"notify", "save"}
             /\ pPrev' = MonitorState("unknown", 0, 0, 0, FALSE, 0)
             /\ pNew' = MonitorState(pStatus, now,
                                     IF pStatus = "open" THEN now ELSE 0,
                                     IF pStatus = "closed" THEN now ELSE 0,
                                     FALSE, 0)
       /\ (PollSaved /\ pReadErr)
          => /\ store'.status = pNew.status
             /\ store'.lastChecked = pNew.lastChecked
             /\ store'.lastOpenedTime = pNew.lastOpenedTime
             /\ store'.lastClosedTime = pNew.lastClosedTime
             /\ store'.notificationSent = pNew.notificationSent]_vars

\* a poll whose read of a record of an earlier open session failed has saved
\* the state reconciled against the default
C5_Witness ==
    /\ ppc = "done"
    /\ pResult = "ok"
    /\ pReadErr
    /\ pStatus = "open"
    /\ store.status = "open"
    /\ store.lastOpenedTime = store.lastChecked
    /\ store.lastChecked > StartTime

\* C6: whenever the monitor or updateDoorStatus observes "open" or "closed"
\* and the record it works on has another status, the state it computes has
\* notificationSent false.
C6_ResetOnOpenOrClosed ==
    [][/\ (/\ PollReconciled
           /\ pStatus \in {"open", "closed"}
           /\ pPrev'.status # pStatus)
          => ~pNew'.notificationSent
       /\ (/\ cpc = "statusGet"
           /\ cpc' = "statusPut"
           /\ cStatus \in {"open", "closed"}
           /\ (store = Nil \/ store.status # cStatus))
          => ~cState'.notificationSent]_vars

\* updateDoorStatus has reset the flag of a notified open record on "closed"
C6_Witness ==
    /\ cpc = "statusPut"
    /\ cStatus = "closed"
    /\ store # Nil
    /\ store.status = "open"
    /\ store.notificationSent
    /\ ~cState.notificationSent

C8_SameStatusKeepsTimes ==
    (ppc \in {"notify", "save"} /\ pStatus = pPrev.status)
    => /\ pNew.lastOpenedTime = pPrev.lastOpenedTime
       /\ pNew.lastClosedTime = pPrev.lastClosedTime
       /\ pNotify # "sent" => pNew.notificationSent = pPrev.notificationSent

\* a repeated "open" observation, later than the open transition
C8_Witness ==
    /\ ppc = "save"
    /\ pStatus = "open"
    /\ pPrev.status = "open"
    /\ pNew.lastChecked > pPrev.lastOpenedTime
    /\ pNew.lastOpenedTime = pPrev.lastOpenedTime
    /\ pNew.durationOpenMins > 0

\* C9: reconciling an observed "open" against a previous state whose status
\* is not "open" gives lastOpenedTime = now, notificationSent = false and the
\* previous lastClosedTime.
C9_OpenTransition ==
    [][(PollReconciled /\ pStatus = "open" /\ pPrev'.status # "open")
       => /\ pNew'.lastOpenedTime = now
          /\ ~pNew'.notificationSent
          /\ pNew'.lastClosedTime = pPrev'.lastClosedTime]_vars

\* a transition into "open" from a record still marked notified
C9_Witness ==
    /\ ppc = "save"
    /\ pStatus = "open"
    /\ pPrev.status # "open"
    /\ pPrev.notificationSent
    /\ pPrev.lastClosedTime > 0
    /\ pNew.lastOpenedTime > pPrev.lastOpenedTime

\* C10: an observed status other than "open" and "closed" is stored as it
\* is, and the state computed from it keeps the lastOpenedTime,
\* lastClosedTime and notificationSent of the record it was computed from
\* (the record read, or the empty one), in the monitor and in
\* updateDoorStatus.
C10_OtherStatusPassesThrough ==
    [][/\ (PollReconciled /\ pStatus \notin {"open", "closed"})
          => /\ pNew'.status = pStatus
             /\ pNew'.lastOpenedTime = pPrev'.lastOpenedTime
             /\ pNew'.lastClosedTime = pPrev'.lastClosedTime
             /\ pNew'.notificationSent = pPrev'.notificationSent
             /\ ppc' = "save"
       /\ (PollSaved /\ pStatus \notin {"open", "closed"})
          => /\ store'.status = pStatus
             /\ store'.lastOpenedTime = pPrev.lastOpenedTime
             /\ store'.lastClosedTime = pPrev.lastClosedTime
             /\ store'.notificationSent = pPrev.notificationSent
       /\ (/\ cpc = "statusGet"
           /\ cpc' = "statusPut"
           /\ cStatus \notin {"open", "closed"})
          => /\ cState'.status = cStatus
             /\ \/ /\ store # Nil
                   /\ cState'.lastOpenedTime = store.lastOpenedTime
                   /\ cState'.lastClosedTime = store.lastClosedTime
                   /\ cState'.notificationSent = store.notificationSent
                \/ /\ cState'.lastOpenedTime = 0
                   /\ cState'.lastClosedTime = 0
                   /\ ~cState'.notificationSent]_vars

\* the monitor has stored an unknown string over a notified open record
C10_Witness ==
    /\ ppc = "done"
    /\ pResult = "ok"
    /\ pStatus = "ajar"
    /\ pPrev.status = "open"
    /\ pPrev.notificationSent
    /\ store.status = "ajar"
    /\ store.notificationSent
    /\ store.lastOpenedTime = pPrev.lastOpenedTime

\* a record as a poll leaves it: no lastButtonPress, and durationOpenMins
\* the duration at lastChecked
PollShaped(item) ==
    /\ item.lastButtonPress = 0
    /\ item.durationOpenMins =
          IF item.status = "open" /\ item.lastOpenedTime > 0
          THEN (item.lastChecked - item.lastOpenedTime) \div 60
          ELSE 0

\* C11: a poll calls sendNotification if and only if the reconciled status
\* is "open", durationMinutes >= thresholdMinutes and the reconciled
\* notificationSent is false, where durationMinutes is
\* floor((now - lastOpenedTime) / 60) for an open state with
\* lastOpenedTime > 0 and 0 otherwise.
C11_DispatchIffDue ==
    [][PollReconciled
       => LET d == IF pNew'.status = "open" /\ pNew'.lastOpenedTime > 0
                   THEN (now - pNew'.lastOpenedTime) \div 60
                   ELSE 0
          IN  /\ pNew'.durationOpenMins = d
              /\ (ppc' = "notify")
                 <=> (/\ pNew'.status = "open"
                      /\ d >= thresholdMinutes
                      /\ ~pNew'.notificationSent)]_vars

\* 121 minutes open, not notified: sendNotification is about to be called
C11_Witness ==
    /\ ppc = "notify"
    /\ pPrev.status = "open"
    /\ pNew.durationOpenMins = 121
    /\ ~pNew.notificationSent

\* C12: with every call succeeding, a poll that reads the record a poll
\* left for the same status at the same instant computes that very record
\* again and calls no sendNotification; its save leaves the store as it was.
C12_PollIdempotent ==
    [][/\ (/\ PollReconciled
           /\ store # Nil
           /\ PollShaped(store)
           /\ store.status = pStatus
           /\ store.lastChecked = now)
          => (ppc' = "save" /\ MonitorMarshal(pNew') = store)
       /\ (PollSaved /\ MonitorMarshal(pNew) = store) => store' = store]_vars

\* the second poll of a notified open session at the instant of the first
C12_Witness ==
    /\ ppc = "done"
    /\ pResult = "ok"
    /\ pStatus = "open"
    /\ pPrev.status = "open"
    /\ pPrev.lastChecked = pNew.lastChecked
    /\ pPrev.notificationSent
    /\ pPrev.durationOpenMins >= thresholdMinutes
    /\ pNotify = "none"
    /\ store = MonitorMarshal(pNew)

\* C13: the duration a poll computes for an open record is never negative,
\* and for an unchanged lastOpenedTime > 0 it is at least the duration the
\* store holds from an earlier poll of the same open session.
C13_DurationMonotone ==
    [][/\ PollReconciled => pNew'.durationOpenMins >= 0
       /\ (/\ PollReconciled
           /\ pStatus = "open"
           /\ pPrev'.status = "open"
           /\ pPrev'.lastOpenedTime > 0)
          => /\ pNew'.lastOpenedTime = pPrev'.lastOpenedTime
             /\ now >= pNew'.lastOpenedTime
             /\ pNew'.durationOpenMins >= pPrev'.durationOpenMins]_vars

\* a later poll of an open session: the duration has grown from 60 minutes
C13_Witness ==
    /\ ppc \in {"notify", "save"}
    /\ pStatus = "open"
    /\ pPrev.status = "open"
    /\ pPrev.durationOpenMins = 60
    /\ pNew.durationOpenMins > 60

\* the elapsed-time clause as the status response is described to phrase it:
\* hours and minutes from 60 minutes on, minutes below, nothing at 0 or less
DescribedPhrase(d) ==
    IF d >= 60
    THEN [form |-> "hours", h |-> d \div 60, m |-> d % 60]
    ELSE IF d > 0
         THEN [form |-> "minutes", h |-> 0, m |-> d]
         ELSE NoPhrase

\* the step in which handleGetStatus reads the record of an open door and
\* phrases the time since it opened
StatusPhrased ==
    /\ cpc = "infoGet" /\ cpc' = "done"
    /\ store # Nil /\ store.lastOpenedTime > 0

\* C14: for every durationMinutes the status response appends "<N> minutes"
\* when 0 < durationMinutes < 60, "<H> hours and <M> minutes" with
\* H = durationMinutes / 60 and M = durationMinutes % 60 when
\* durationMinutes >= 60, and nothing when durationMinutes <= 0.
\* The code takes the hours form only above 60: at exactly 60 it says
\* "60 minutes".
C14_PhraseHoursFromSixty ==
    [][StatusPhrased
       => cResp'.outputSpeech.text.open
             = DescribedPhrase((now - store.lastOpenedTime) \div 60)]_vars

\* C14, the case of the divergence reached: a door open for exactly 60
\* minutes reported in the minutes form
C14_SixtyMinutesReached ==
    /\ cpc = "done" /\ cStatus = "open"
    /\ cResp.outputSpeech.text.open = [form |-> "minutes", h |-> 0, m |-> 60]

SorryFunction == "Sorry, I couldn't communicate with the garage door opener."

SorryVariable == "Sorry, I couldn't get the garage door status."

AlreadyActive == "The garage door button is already active."

ButtonPressed == "Garage door button pressed."

CurrentlyIs == "The garage door is currently"

\* the step in which the pressButton call answers with a return_value
FunctionReturned == cpc = "callFunction" /\ Len(cRv') = 1

\* C15: the pressButton return code maps three ways: 1 = success, 0 = already
\* active, any other value = error (apologetic response, press not
\* recorded), never success or already active.
\* The code tests return_value == 1 only: every other value, -1 as well as
\* 0, is answered "already active".
C15_OtherCodeIsError ==
    [][/\ (FunctionReturned /\ cRv'[1] = 1) => cpc' = "pressGet"
       /\ (FunctionReturned /\ cRv'[1] = 0)
          => (cpc' = "done" /\ cResp'.outputSpeech.text.msg = AlreadyActive)
       /\ (FunctionReturned /\ cRv'[1] \notin {0, 1})
          => (cpc' = "done" /\ cResp'.outputSpeech.text.msg = SorryFunction)]_vars

\* C16: when the pressButton call returns return_value = 0 the handler
\* answers "already active", does not report success, and writes nothing:
\* the stored record is the same when the invocation ends.
C16_AlreadyActiveWritesNothing ==
    [][/\ (FunctionReturned /\ cRv'[1] = 0)
          => /\ cpc' = "done"
             /\ cResp' = buildResponse(Speech(AlreadyActive, "", NoPhrase), TRUE)
             /\ store' = store
       /\ (cpc # "idle" /\ cRv = <<0>>) => (cpc = "done" /\ store' = store)]_vars

C16_Witness ==
    /\ cpc = "done" /\ cRv = <<0>>
    /\ cResp.outputSpeech.text.msg = AlreadyActive
    /\ store # Nil /\ store.lastButtonPress > 0 /\ store.lastButtonPress < now

\* C17: every invocation of HandleRequest, for every request type and intent
\* and whatever calls fail, ends with a well-formed envelope (version "1.0",
\* outputSpeech of type "PlainText" with a text, shouldEndSession) and a nil
\* error; until it ends there is no response.
C17_EnvelopeWellFormed ==
    /\ cpc = "done"
       => /\ DOMAIN cResp = {"version", "outputSpeech", "shouldEndSession", "err"}
          /\ cResp.version = "1.0"
          /\ cResp.outputSpeech.type = "PlainText"
          /\ cResp.outputSpeech.text.msg # ""
          /\ cResp.shouldEndSession \in BOOLEAN
          /\ cResp.err = "nil"
    /\ cpc # "done" => cResp = NoResponse

C17_Witness ==
    /\ cpc = "done"
    /\ cResp = buildResponse(Speech("I don't understand that command.", "", NoPhrase),
                             TRUE)

\* the step in which the Particle call of a command fails
UpstreamFailed ==
    \/ cpc = "callFunction" /\ cpc' = "done" /\ cRv' = << >>
    \/ cpc = "getVariable" /\ cpc' = "done"

\* C18: when the Particle call of a press-button or get-status command fails,
\* the handler returns an apologetic response with shouldEndSession = true
\* and writes nothing to the store, in that step or later in the invocation.
C18_UpstreamFailureApologises ==
    [][/\ UpstreamFailed
          => /\ cResp'.outputSpeech.text.msg
                   = (IF cpc = "callFunction" THEN SorryFunction ELSE SorryVariable)
             /\ cResp'.shouldEndSession
             /\ cResp'.err = "nil"
             /\ store' = store
       /\ (cpc = "done" /\ cResp.outputSpeech.text.msg \in {SorryFunction, SorryVariable})
          => store' = store]_vars

C18_Witness ==
    /\ cpc = "done" /\ cResp.outputSpeech.text.msg = SorryVariable
    /\ cResp.shouldEndSession
    /\ store # Nil /\ store.lastChecked < now

\* C19: a store failure never blocks the command: once the Particle call has
\* succeeded, the read step always goes on to the write step and the write
\* step always goes on to the normal response ("Garage door button
\* pressed.", "The garage door is currently <status>."), whether or not the
\* store call failed.
C19_StoreFailureDoesNotBlock ==
    [][/\ (cpc = "pressGet" /\ cpc' # cpc) => cpc' = "pressPut"
       /\ (cpc = "pressPut" /\ cpc' # cpc)
          => /\ cpc' = "done"
             /\ cResp' = buildResponse(Speech(ButtonPressed, "", NoPhrase), TRUE)
       /\ (cpc = "statusGet" /\ cpc' # cpc) => cpc' = "statusPut"
       /\ (cpc = "statusPut" /\ cpc' # cpc)
          => IF cStatus = "open"
             THEN cpc' = "infoGet"
             ELSE /\ cpc' = "done"
                  /\ cResp' = buildResponse(Speech(CurrentlyIs, cStatus, NoPhrase), TRUE)
       /\ (cpc = "infoGet" /\ cpc' # cpc)
          => /\ cpc' = "done"
             /\ cResp'.outputSpeech.text.msg = CurrentlyIs
             /\ cResp'.outputSpeech.text.status = "open"]_vars

\* the press was answered as done although its record never reached the store
C19_Witness ==
    /\ cpc = "done" /\ cRv = <<1>>
    /\ cResp.outputSpeech.text.msg = ButtonPressed
    /\ cState.lastButtonPress = cTime
    /\ store = Nil

\* the step in which a put of the command handler succeeds
CmdSaved == cpc \in {"pressPut", "statusPut"} /\ cpc' # cpc

\* C20: the store is not locked. Interleaved invocations of the command
\* handler and of the poller can lose an update (C20_Witness: a
\* lastButtonPress written by a button press is overwritten by the poller's
\* write of a record read before it), and the record in the store is always
\* exactly the one put by the last writer: every put replaces the whole
\* record by the writer's own, and nothing else changes the store.
C20_LastWriterWins ==
    [][/\ PollSaved => store' = MonitorMarshal(pNew)
       /\ CmdSaved => store' = AlexaMarshal(cState)
       /\ store' # store => (PollSaved \/ CmdSaved)]_vars

\* both invocations are over and answered success; the poller read the record
\* before the button press was written and wrote after it: the press is gone
C20_Witness ==
    /\ cpc = "done" /\ cResp.outputSpeech.text.msg = ButtonPressed
    /\ cState.lastButtonPress = cTime /\ cTime > 0
    /\ ppc = "done" /\ pResult = "ok"
    /\ pPrev # Nil /\ pPrev.lastChecked < cTime
    /\ store = MonitorMarshal(pNew)
    /\ store.lastButtonPress = 0

\* C21: with no concurrent invocation, a lastButtonPress recorded by an
\* earlier button press is still in the persisted record, with the same
\* value, after any later poll cycle.
\* The poller's DoorState has no lastButtonPress field: its put writes a
\* record without the attribute, so the value is gone after the first poll.
C21_PollKeepsButtonPress ==
    [][(PollSaved /\ store # Nil)
       => store'.lastButtonPress = store.lastButtonPress]_vars

\* the step in which readSensor takes a reading
SensorRead == fpc = "sensor" /\ fStep' = "readSensor"

\* C22: whenever a sensor reading makes doorStatus differ from its value
\* before the reading, readSensor publishes "door/status" with the new
\* status.
\* oldStatus points at the doorStatus buffer, so the comparison after the
\* strcpy never sees a difference: door/status is never published.
C22_StatusChangePublished ==
    [][(SensorRead /\ doorStatus' # doorStatus)
       => \E i \in 1..Len(fOut') : fOut'[i] = Event("door/status", doorStatus')]_vars

\* C23: after a pressButton call activates the relay, the relay stays active
\* until at least RELAY_PULSE_DURATION (1000 ms) has passed since the
\* activation, is deactivated by loop() and by nothing else, and, loop()
\* running on, is eventually inactive again, also when millis() wraps around
\* during the pulse.
C23_RelayPulse ==
    /\ [][(relayActive /\ ~relayActive')
          => /\ fElapsed - fActivatedAt >= RELAY_PULSE_DURATION
             /\ fpc = "relay" /\ fStep' = "loop"]_vars
    /\ (relayActive ~> ~relayActive)

\* a pulse that began before the wrap-around of millis() and ended after it
C23_Witness ==
    /\ ~relayActive /\ fOut = <<Event("relay/deactivated", "true")>>
    /\ relayStartTime.hi = Half - 1 /\ millis.hi = 0
    /\ fElapsed - fActivatedAt >= RELAY_PULSE_DURATION

\* the step in which pressButtonHandler runs
PressStep == fpc' = fpc /\ fStep' = "pressButton"

\* C24: pressButtonHandler returns 1 and activates the relay if and only if
\* the relay is inactive; called while the relay is active it returns 0 and
\* leaves relayActive and relayStartTime as they are, so presses during a
\* pulse never extend it: the first pass of loop() at or after 1000 ms ends
\* the pulse.
C24_PressOnlyWhenInactive ==
    [][/\ PressStep
          => IF ~relayActive
             THEN fRv' = <<1>> /\ relayActive' /\ relayStartTime' = millis
             ELSE fRv' = <<0>> /\ UNCHANGED <<relayActive, relayStartTime>>
       /\ (relayActive /\ relayActive') => relayStartTime' = relayStartTime
       /\ (/\ relayActive /\ fpc = "relay" /\ fpc' = "sensor"
           /\ fElapsed - fActivatedAt >= RELAY_PULSE_DURATION) => ~relayActive']_vars

\* a press during a pulse, answered 0
C24_Witness ==
    /\ relayActive /\ fStep = "pressButton" /\ fRv = <<0>>
    /\ fElapsed - fActivatedAt >= 2 * MinTick

\* C25: under every interleaving of poller invocations with get-status
\* invocations, all external calls succeeding, at most one notification is
\* dispatched per open session (per lastOpenedTime).
\* A get-status that read the record before the poller saved
\* notificationSent = true writes its own copy back after it, with
\* notificationSent = false: the next poll notifies again.
C25_OneNotificationPerSessionInterleaved ==
    \A i, j \in 1..Len(published) :
       published[i].openedAt = published[j].openedAt => i = j

\* the step in which sendNotification publishes
Dispatched == ppc = "notify" /\ Len(published') = Len(published) + 1

\* C26: in poll cycles that all observe "open" in one open session at most
\* one notification is dispatched, even if some cycle fails to read the
\* previous state or fails to write the new state after a dispatch: no
\* dispatch is for a lastOpenedTime already notified.
\* A failed save after a dispatch loses notificationSent = true, and the
\* next poll dispatches again.
C26_DedupSurvivesStoreFailures ==
    [][Dispatched
       => \A i \in 1..Len(published) :
             published[i].openedAt # published'[Len(published')].openedAt]_vars

\* C27: if the door stays "open", poll cycles keep being invoked with time
\* advancing, status reads and store reads and writes succeed and dispatch
\* succeeds infinitely often, then a notification is eventually dispatched
\* and the persisted record eventually has notificationSent = true (time
\* advancing: the clock gets past the threshold).
\* While the store holds no record every poll ends in the nil dereference
\* of C2, writes nothing and dispatches nothing, for ever.
C27_AlertEventually ==
    <>(now >= StartTime + thresholdMinutes * 60)
       => (<>(published # << >>) /\ <>StoreSent)

\* C27, with a record in the store when the door opens: the alert does come
C27_AlertEventuallyGivenRecord ==
    <>(now >= StartTime + thresholdMinutes * 60)
       => ((store # Nil /\ now = StartTime) ~> (published # << >> /\ StoreSent))

\* C28: every record the poller and the command handler leave in the store,
\* starting from an empty store, has lastOpenedTime > 0 when its status is
\* "open" (clock values are > 0).
C28_OpenRecordHasOpenTime ==
    (store # Nil /\ store.status = "open") => store.lastOpenedTime > 0

\* an open record written by the command handler onto an empty store, then
\* rewritten by a poll
C28_Witness ==
    /\ store # Nil /\ store.status = "open" /\ store.lastOpenedTime > 0
    /\ ppc = "done" /\ pResult = "ok" /\ store = MonitorMarshal(pNew)
    /\ store.lastChecked > store.lastOpenedTime

\* C29: with a non-decreasing clock, under every interleaving of poller and
\* command-handler invocations, each record written to the store has
\* lastOpenedTime <= lastChecked and lastClosedTime <= lastChecked, and
\* lastChecked never decreases from one stored record to the next.
\* The command handler takes its timestamp before it reads: a poll that
\* runs in between writes a later lastChecked (and, on a transition, a later
\* lastOpenedTime), which the command then overwrites with its earlier time.
C29_TimestampsOrdered ==
    [][(store' # store /\ store' # Nil)
       => /\ store'.lastOpenedTime <= store'.lastChecked
          /\ store'.lastClosedTime <= store'.lastChecked
          /\ store # Nil => store.lastChecked <= store'.lastChecked]_vars

\* the fields the two handlers both reconcile
SameReconciled(a, b) ==
    /\ a.status = b.status
    /\ a.lastOpenedTime = b.lastOpenedTime
    /\ a.lastClosedTime = b.lastClosedTime
    /\ a.notificationSent = b.notificationSent

\* the step in which updateDoorStatus reads the record and updates it
CmdReconciled == cpc = "statusGet" /\ cpc' = "statusPut"

\* C30: for every existing previous record and every observed status, the
\* command handler's updateDoorStatus and the poller's reconciliation (before
\* any dispatch) compute the same status, lastOpenedTime, lastClosedTime and
\* notificationSent for the same timestamp: whatever a poll computes from
\* the stored record, updateDoorStatus would compute from it, and the other
\* way round.
C30_SameTransitionLogic ==
    [][/\ (PollReconciled /\ store # Nil)
          => SameReconciled(pNew', AlexaTransition(AlexaUnmarshal(store), pStatus, now))
       /\ (CmdReconciled /\ store # Nil)
          => SameReconciled(cState',
                            MonitorTransition(MonitorUnmarshal(store), cStatus, cTime))]_vars

\* a poll has taken a notified open record to "closed"
C30_Witness ==
    /\ ppc = "save" /\ pStatus = "closed"
    /\ pPrev.status = "open" /\ pPrev.notificationSent
    /\ pNew.lastClosedTime = pNew.lastChecked /\ ~pNew.notificationSent
====
